---------------------------- MODULE Spec2Model ----------------------------
(***************************************************************************)
(* Loading of dynamic data sources (store/postgres/src/dynds.rs).          *)
(*                                                                         *)
(* Two specifications:                                                     *)
(*   SpecSource  applies to_source to one raw source tuple;                *)
(*   Spec        runs load over the rows of one deployment.                *)
(*                                                                         *)
(* Numbers wider than TLC's 32-bit integers are kept as                    *)
(* big-endian sequences of 16-bit limbs: a u64 is four limbs, the          *)
(* magnitude of a BigDecimal five (so that values above 2^64-1 exist).     *)
(* An i32 is an Int.                                                       *)
(***************************************************************************)
EXTENDS Integers, Sequences, FiniteSets, TLC

VARIABLES
    table,          \* rows of the joined relations for the deployment, by vid
    pc,             \* position of load: "start", "loop", "done", "idle"
    query,          \* outcome of the query: "pending", "ok", "failed"
    dds,            \* the loaded rows, in the order the query returns them
    i,              \* number of rows the loop has consumed
    data_sources,   \* the accumulated Vec<StoredDynamicDataSource>
    result,         \* what load returned
    src_in,         \* to_source alone: the raw tuple
    src_out         \* to_source alone: its result

vars == <<table, pc, query, dds, i, data_sources, result, src_in, src_out>>

-----------------------------------------------------------------------------
(* Bounds *)

\* Largest number of rows a deployment has in the model.
MaxRows == 3

-----------------------------------------------------------------------------
(* Option, Result *)

None == [some |-> FALSE]
Some(v) == [some |-> TRUE, val |-> v]

Ok(v) == [tag |-> "Ok", val |-> v]
Err(e) == [tag |-> "Err", err |-> e]

\* constraint_violation!(...) / StoreError::ConstraintViolation(...)
ConstraintViolation(what) == [kind |-> "ConstraintViolation", what |-> what]

-----------------------------------------------------------------------------
(* Fixed-width numbers *)

Limb == 2^16
LimbMax == Limb - 1

U64Zero == <<0, 0, 0, 0>>
U64Max == <<LimbMax, LimbMax, LimbMax, LimbMax>>

\* A small natural as a u64.
U64Of(n) == <<0, 0, n \div Limb, n % Limb>>

\* a <= b on u64 (lexicographic on big-endian limbs)
RECURSIVE LimbsLe(_, _)
LimbsLe(a, b) ==
    IF a = <<>> THEN TRUE
    ELSE IF Head(a) # Head(b) THEN Head(a) < Head(b)
    ELSE LimbsLe(Tail(a), Tail(b))

\* `n as u64` for an i32 n: sign extension, so a negative n becomes
\* 2^64 - |n|.
CastI32ToU64(n) ==
    LET hi == n \div Limb
        lo == n % Limb
    IN  IF n >= 0 THEN <<0, 0, hi, lo>>
        ELSE <<LimbMax, LimbMax, Limb + hi, lo>>

\* The derived PartialOrd of Option<u64>: None is below every Some.
OptionLe(a, b) ==
    IF ~a.some THEN TRUE
    ELSE IF ~b.some THEN FALSE
    ELSE LimbsLe(a.val, b.val)

-----------------------------------------------------------------------------
(* BigDecimal: the value (-1)^neg * (whole + frac/10), whole of five limbs *)

Dec(neg, whole, frac) == [neg |-> neg, whole |-> whole, frac |-> frac]
DecOf(n) == Dec(FALSE, <<0>> \o U64Of(n), 0)

DecIsZero(d) == d.whole = <<0, 0, 0, 0, 0>> /\ d.frac = 0

\* BigDecimal::to_u64: the value as a u64 when it is exactly one.
to_u64(d) ==
    IF DecIsZero(d) THEN Some(U64Zero)
    ELSE IF d.neg \/ d.frac # 0 \/ d.whole[1] # 0 THEN None
    ELSE Some(SubSeq(d.whole, 2, 5))

-----------------------------------------------------------------------------
(* to_source *)

AddressLen == 20

\* Mutant of H160FromSlice: the bytes taken in the opposite order.
H160Reversed(s) == [k \in 1..AddressLen |-> s[AddressLen + 1 - k]]

\* H160::from_slice: the 20 bytes of the slice.
H160FromSlice(s) == [k \in 1..AddressLen |-> s[k]]

\* Mutant of CheckAddress: a missing address becomes the zero address.
CheckAddressDefaulting(deployment, ds_id, address) ==
    IF ~address.some THEN Ok(Some([k \in 1..AddressLen |-> 0]))
    ELSE IF Len(address.val) # AddressLen
    THEN Err([kind |-> "ConstraintViolation", what |-> "address length",
              address |-> address.val, ds_id |-> ds_id,
              deployment |-> deployment, len |-> Len(address.val)])
    ELSE Ok(Some([k \in 1..AddressLen |-> address.val[k]]))

\* The address of the tuple: present and 20 bytes long, or an error.
CheckAddress(deployment, ds_id, address) ==
    IF ~address.some
    THEN Err([kind |-> "ConstraintViolation", what |-> "missing address",
              ds_id |-> ds_id, deployment |-> deployment])
    ELSE IF Len(address.val) # AddressLen
    THEN Err([kind |-> "ConstraintViolation", what |-> "address length",
              address |-> address.val, ds_id |-> ds_id,
              deployment |-> deployment, len |-> Len(address.val)])
    ELSE Ok(Some(H160FromSlice(address.val)))

\* Mutant of ConvertStartBlock: the stored start block is checked but
\* not used.
ConvertStartBlockDropping(deployment, ds_id, start_block) ==
    IF ~start_block.some THEN Ok(U64Zero)
    ELSE IF ~to_u64(start_block.val).some
    THEN Err([kind |-> "ConstraintViolation", what |-> "start block",
              start_block |-> start_block.val, ds_id |-> ds_id,
              deployment |-> deployment])
    ELSE Ok(U64Zero)

\* Mutant of ConvertStartBlock: a start block that is no u64 counts as
\* missing (and_then(to_u64).unwrap_or(0)).
ConvertStartBlockLenient(deployment, ds_id, start_block) ==
    IF ~start_block.some THEN Ok(U64Zero)
    ELSE IF ~to_u64(start_block.val).some THEN Ok(U64Zero)
    ELSE Ok(to_u64(start_block.val).val)

\* start_block.map(|s| s.to_u64().ok_or_else(..)).transpose()?.unwrap_or(0)
ConvertStartBlock(deployment, ds_id, start_block) ==
    IF ~start_block.some THEN Ok(U64Zero)
    ELSE IF ~to_u64(start_block.val).some
    THEN Err([kind |-> "ConstraintViolation", what |-> "start block",
              start_block |-> start_block.val, ds_id |-> ds_id,
              deployment |-> deployment])
    ELSE Ok(to_u64(start_block.val).val)

to_source(deployment, ds_id, tuple) ==
    LET address == CheckAddress(deployment, ds_id, tuple[1])
        abi == tuple[2]
        start_block == ConvertStartBlock(deployment, ds_id, tuple[3])
    IN  IF address.tag = "Err" THEN address
        ELSE IF start_block.tag = "Err" THEN start_block
        ELSE Ok([address |-> address.val,
                 abi |-> abi,
                 start_block |-> start_block.val])

-----------------------------------------------------------------------------
(* load *)

Included(n) == [kind |-> "Included", n |-> n]
Excluded(n) == [kind |-> "Excluded", n |-> n]
Unbounded == [kind |-> "Unbounded"]

\* block_range::first_block_in_range: the inclusive lower bound of the
\* range, None when the range has no lower bound.
first_block_in_range(range) ==
    LET lower == range[1]
    IN  IF lower.kind = "Included" THEN Some(lower.n)
        ELSE IF lower.kind = "Excluded" THEN Some(lower.n + 1)
        ELSE None

\* creation_block.map(|n| n as u64)
CreationBlock(range) ==
    LET creation_block == first_block_in_range(range)
    IN  IF creation_block.some THEN Some(CastI32ToU64(creation_block.val))
        ELSE None

\* .order_by((decds::ethereum_block_number, decds::vid))
RowBefore(a, b) ==
    \/ a.ethereum_block_number < b.ethereum_block_number
    \/ /\ a.ethereum_block_number = b.ethereum_block_number
       /\ a.vid < b.vid

RECURSIVE OrderBy(_)
OrderBy(rows) ==
    IF rows = {} THEN <<>>
    ELSE LET first == CHOOSE r \in rows :
                          \A o \in rows \ {r} : RowBefore(r, o)
         IN  <<first>> \o OrderBy(rows \ {first})

\* .filter(decds::deployment.eq(id)) ... .order_by(..)
RunQuery(rows, id) == OrderBy({r \in rows : r.deployment = id})

\* Mutant of QueryError: the failure reported as a constraint violation.
QueryErrorWrapped(e) == Err(ConstraintViolation(e))

\* A failure of the query, as `?` returns it.
QueryError(e) == Err([kind |-> "QueryError", cause |-> e])

\* Mutant of LastCreationBlock: first() in place of last().
FirstCreationBlock(list) ==
    IF list = <<>> THEN None ELSE list[1].creation_block

\* data_sources.last().and_then(|d| d.creation_block)
LastCreationBlock(list) ==
    IF list = <<>> THEN None ELSE list[Len(list)].creation_block

\* The condition under which the row is accepted (the negation of the
\* `if` guarding the early return).
Ordered(list, data_source) ==
    OptionLe(LastCreationBlock(list), data_source.creation_block)

\* Mutant of NotOrdered: the loop stops and what was accumulated is returned.
ReturnAccumulated(list) == Ok(list)

\* The early return of the ordering check.
NotOrdered(list) ==
    Err(ConstraintViolation("data sources not ordered by creation block"))

\* data_sources.push(data_source)
Push(list, data_source) == Append(list, data_source)

StoredDynamicDataSource(row, source) ==
    [name |-> row.name,
     source |-> source,
     context |-> row.context,
     creation_block |-> CreationBlock(row.block_range)]

-----------------------------------------------------------------------------
(* Inputs *)

Bytes(n, b) == [k \in 1..n |-> b]

Deployment == "dep1"

LoadSources ==
    { <<Some(Bytes(AddressLen, 17)), "ERC20", None>>,
      <<Some(Bytes(AddressLen, 34)), "ERC721", Some(DecOf(5))>>,
      <<None, "ERC20", None>> }

LoadRanges ==
    { <<Unbounded, Unbounded>>,
      <<Included(0 - 1), Unbounded>>,
      <<Included(0), Excluded(7)>>,
      <<Excluded(0), Unbounded>> }

RowData ==
    [ethereum_block_number : {1, 2}, source : LoadSources,
     block_range : LoadRanges]

Row(vid, d) ==
    [vid |-> vid, id |-> <<"ds", vid>>, name |-> <<"name", vid>>,
     context |-> IF vid % 2 = 0 THEN Some("ctx") ELSE None,
     deployment |-> Deployment,
     ethereum_block_number |-> d.ethereum_block_number,
     source |-> d.source, block_range |-> d.block_range]

\* A row of another deployment, which the query must leave out.
ForeignRow ==
    [vid |-> 0, id |-> <<"ds", 0>>, name |-> <<"name", 0>>, context |-> None,
     deployment |-> "dep2", ethereum_block_number |-> 1,
     source |-> <<Some(Bytes(AddressLen, 51)), "ERC20", None>>,
     block_range |-> <<Included(0), Unbounded>>]

QueryErrors == {"connection", "syntax"}

NoResult == [tag |-> "None"]

-----------------------------------------------------------------------------
(* load as a state machine *)

Init ==
    /\ \E n \in 0..MaxRows : \E f \in [1..n -> RowData] :
           table = {Row(k, f[k]) : k \in 1..n} \cup {ForeignRow}
    /\ pc = "start"
    /\ query = "pending"
    /\ dds = <<>>
    /\ i = 0
    /\ data_sources = <<>>
    /\ result = NoResult
    /\ src_in = <<>>
    /\ src_out = NoResult

\* The query fails: `?` returns the error.
QueryFails ==
    /\ pc = "start"
    /\ \E e \in QueryErrors : result' = QueryError(e)
    /\ query' = "failed"
    /\ pc' = "done"
    /\ UNCHANGED <<table, dds, i, data_sources, src_in, src_out>>

\* The query succeeds.
QueryLoads ==
    /\ pc = "start"
    /\ dds' = RunQuery(table, Deployment)
    /\ query' = "ok"
    /\ pc' = "loop"
    /\ data_sources' = <<>>
    /\ UNCHANGED <<table, i, result, src_in, src_out>>

\* One iteration of the loop.
ProcessRow ==
    /\ pc = "loop"
    /\ i < Len(dds)
    /\ LET row == dds[i + 1]
           source == to_source(Deployment, row.id, row.source)
           data_source == StoredDynamicDataSource(row, source.val)
       IN  IF source.tag = "Err"
           THEN /\ result' = source
                /\ pc' = "done"
                /\ data_sources' = <<>>
                /\ i' = i + 1
           ELSE IF ~Ordered(data_sources, data_source)
           THEN /\ result' = NotOrdered(data_sources)
                /\ pc' = "done"
                /\ data_sources' = <<>>
                /\ i' = i + 1
           ELSE /\ data_sources' = Push(data_sources, data_source)
                /\ i' = i + 1
                /\ UNCHANGED <<result, pc>>
    /\ UNCHANGED <<table, query, dds, src_in, src_out>>

\* The loop is over: Ok(data_sources).
Return ==
    /\ pc = "loop"
    /\ i = Len(dds)
    /\ result' = Ok(data_sources)
    /\ pc' = "done"
    /\ data_sources' = <<>>
    /\ UNCHANGED <<table, query, dds, i, src_in, src_out>>

Next == QueryFails \/ QueryLoads \/ ProcessRow \/ Return

Spec == Init /\ [][Next]_vars

-----------------------------------------------------------------------------
(* to_source on its own *)

Addresses ==
    { None, Some(<<>>), Some(Bytes(AddressLen - 1, 17)),
      Some(Bytes(AddressLen, 17)), Some([k \in 1..AddressLen |-> k]),
      Some(Bytes(AddressLen + 1, 17)) }

Abis == {"ERC20", "ERC721"}

StartBlocks ==
    { None,
      Some(DecOf(0)),
      Some(DecOf(5)),
      Some(Dec(FALSE, <<0>> \o U64Max, 0)),           \* 2^64 - 1
      Some(Dec(FALSE, <<1, 0, 0, 0, 0>>, 0)),         \* 2^64
      Some(Dec(TRUE, <<0, 0, 0, 0, 1>>, 0)),          \* -1
      Some(Dec(FALSE, <<0, 0, 0, 0, 1>>, 5)),         \* 1.5
      Some(Dec(TRUE, <<0, 0, 0, 0, 0>>, 5)) }         \* -0.5

InitSource ==
    /\ src_in \in Addresses \X Abis \X StartBlocks
    /\ src_out = NoResult
    /\ table = {}
    /\ pc = "idle"
    /\ query = "pending"
    /\ dds = <<>>
    /\ i = 0
    /\ data_sources = <<>>
    /\ result = NoResult

ToSource ==
    /\ src_out = NoResult
    /\ src_out' = to_source(Deployment, <<"ds", 1>>, src_in)
    /\ UNCHANGED <<table, pc, query, dds, i, data_sources, result, src_in>>

NextSource == ToSource

SpecSource == InitSource /\ [][NextSource]_vars

-----------------------------------------------------------------------------
(* Notions the claims are stated in *)

\* a <= b as 64-bit unsigned integers
U64Leq(a, b) ==
    \/ a = b
    \/ \E k \in 1..4 : a[k] < b[k] /\ \A j \in 1..(k - 1) : a[j] = b[j]

\* Creation points of list entries: an absent one is below every defined one.
CreationPointLeq(a, b) ==
    \/ ~a.some
    \/ a.some /\ b.some /\ U64Leq(a.val, b.val)

\* The creation point of a row: the lower bound of its block range (an i32).
RowCreationPoint(row) == first_block_in_range(row.block_range)

\* a < b on creation points of rows, an absent one being the minimum
RowCreationPointLess(a, b) ==
    /\ b.some
    /\ (~a.some \/ a.val < b.val)

\* The decimal is exactly an integer of 0..2^64-1.
ExactU64(d) ==
    /\ d.frac = 0
    /\ d.whole[1] = 0
    /\ (d.neg => d.whole = <<0, 0, 0, 0, 0>>)

HasValidAddress(tuple) ==
    tuple[1].some /\ Len(tuple[1].val) = AddressLen

\* The Source carries exactly the bytes of the tuple's address.
SameAddress(source, tuple) ==
    /\ source.address.some
    /\ DOMAIN source.address.val = 1..AddressLen
    /\ \A k \in 1..AddressLen : source.address.val[k] = tuple[1].val[k]

IsConstraintViolation(r) ==
    /\ r.tag = "Err"
    /\ r.err.kind = "ConstraintViolation"
    /\ DOMAIN r = {"tag", "err"}

RowsValid == \A k \in 1..Len(dds) : HasValidAddress(dds[k].source)
             /\ (dds[k].source[3].some => ExactU64(dds[k].source[3].val))

OrderingViolation ==
    /\ IsConstraintViolation(result)
    /\ result.err.what = "data sources not ordered by creation block"

\* The vid of the row an entry was made from.
EntryVid(entry) == entry.name[2]

-----------------------------------------------------------------------------
(* Claims *)

C2_EqualCreationPointsByVid ==
    result.tag = "Ok" =>
        \A a \in 1..Len(result.val) : \A b \in (a + 1)..Len(result.val) :
            (/\ result.val[a].creation_block.some
             /\ RowCreationPoint(dds[a]).val >= 0
             /\ RowCreationPoint(dds[a]) = RowCreationPoint(dds[b])
             /\ result.val[a].creation_block = result.val[b].creation_block)
                => EntryVid(result.val[a]) < EntryVid(result.val[b])

\* C3: load never returns a partial list. Once the query has succeeded,
\* load ends either in an error that carries no entries, or in a list that
\* has one entry per row of the query result, in query order; and it ends
\* in a list only if every row passes the Row Validator.
C3_NoPartialList ==
    (pc = "done" /\ query = "ok") =>
        \/ /\ result.tag = "Err"
           /\ DOMAIN result = {"tag", "err"}
        \/ /\ result.tag = "Ok"
           /\ RowsValid
           /\ Len(result.val) = Len(dds)
           /\ \A k \in 1..Len(dds) :
                  /\ result.val[k].name = dds[k].name
                  /\ result.val[k].context = dds[k].context
                  /\ result.val[k].source.abi = dds[k].source[2]
                  /\ SameAddress(result.val[k].source, dds[k].source)

\* C3 witness: the ordering check fails at the third row, after two
\* entries were accumulated, and load returns the error.
C3_Witness ==
    /\ pc = "done"
    /\ i = 3
    /\ OrderingViolation

\* C4 (as claimed): for a tuple with a 20-byte address, to_source returns
\* a Source whose address is the input bytes, whatever the start block
\* (stated here for the start blocks that are absent or whole numbers).
C4_AddressKeptAnyStartBlock ==
    (/\ src_out # NoResult
     /\ HasValidAddress(src_in)
     /\ (src_in[3].some => src_in[3].val.frac = 0)) =>
        /\ src_out.tag = "Ok"
        /\ SameAddress(src_out.val, src_in)

\* C4 (amended): for a tuple with a 20-byte address and a start block that
\* is absent or exactly a u64, to_source returns a Source whose address is
\* the input bytes, for every ABI string.
C4_AddressKept ==
    (/\ src_out # NoResult
     /\ HasValidAddress(src_in)
     /\ (src_in[3].some => ExactU64(src_in[3].val))) =>
        /\ src_out.tag = "Ok"
        /\ SameAddress(src_out.val, src_in)

\* C4 witness: an address of twenty different bytes, with the largest
\* start block, was converted.
C4_Witness ==
    /\ src_out.tag = "Ok"
    /\ src_in[1] = Some([k \in 1..AddressLen |-> k])
    /\ src_in[3].some
    /\ src_in[3].val.whole = <<0>> \o U64Max

\* C5: to_source fails with a ConstraintViolation when the address is
\* absent or not 20 bytes long, and a Source it returns has an address of
\* exactly 20 bytes.
C5_AddressShape ==
    /\ (src_out # NoResult /\ ~HasValidAddress(src_in))
           => IsConstraintViolation(src_out)
    /\ src_out.tag = "Ok" =>
           /\ src_out.val.address.some
           /\ DOMAIN src_out.val.address.val = 1..AddressLen

\* C5 witness: an address of 19 bytes was refused, its length reported.
C5_Witness ==
    /\ IsConstraintViolation(src_out)
    /\ src_in[1].some
    /\ Len(src_in[1].val) = AddressLen - 1
    /\ src_out.err.len = AddressLen - 1

\* C6: when to_source succeeds, start_block is 0 for an absent stored
\* start block and the stored value for one that is exactly a u64, and
\* the ABI string is the input's.
C6_StartBlockAndAbi ==
    src_out.tag = "Ok" =>
        /\ ~src_in[3].some => src_out.val.start_block = U64Zero
        /\ (src_in[3].some /\ ExactU64(src_in[3].val))
               => <<0>> \o src_out.val.start_block = src_in[3].val.whole
        /\ src_out.val.abi = src_in[2]

\* C6 witness: the start block 2^64-1 was kept.
C6_Witness ==
    /\ src_out.tag = "Ok"
    /\ src_in[3].some
    /\ src_out.val.start_block = U64Max
    /\ src_out.val.abi = "ERC721"

\* C7: with a 20-byte address and a start block that is present and not
\* exactly a u64 (negative, above 2^64-1, or with a fractional part),
\* to_source fails with a ConstraintViolation and returns no Source.
C7_BadStartBlockFails ==
    (/\ src_out # NoResult
     /\ HasValidAddress(src_in)
     /\ src_in[3].some
     /\ ~ExactU64(src_in[3].val)) => IsConstraintViolation(src_out)

\* C7 witness: the start block 1.5 was refused.
C7_Witness ==
    /\ IsConstraintViolation(src_out)
    /\ HasValidAddress(src_in)
    /\ src_in[3].some
    /\ src_in[3].val.frac # 0
    /\ ~src_in[3].val.neg

\* C8: a failed query ends load with that failure, not a
\* ConstraintViolation, before any row is looked at; after a successful
\* query every error is a ConstraintViolation.
C8_QueryFailurePropagated ==
    /\ query = "failed" =>
           /\ pc = "done"
           /\ i = 0
           /\ result.tag = "Err"
           /\ result.err.kind # "ConstraintViolation"
           /\ \E e \in QueryErrors : result.err.cause = e
    /\ (query = "ok" /\ result.tag = "Err") => IsConstraintViolation(result)
    /\ (pc = "done" /\ result.tag = "Err" /\ ~IsConstraintViolation(result))
           => query = "failed"

\* C8 witness: the query failed for a deployment that has rows, one of
\* them without an address.
C8_Witness ==
    /\ query = "failed"
    /\ result.tag = "Err"
    /\ \E r \in table : r.deployment = Deployment /\ ~r.source[1].some

\* C9 (as claimed): when every row passes the Row Validator, load fails
\* with the ordering violation exactly if some row's creation point is
\* below that of the row before it, an absent one being the minimum.
C9_OrderingFailsIffDecreasing ==
    (pc = "done" /\ query = "ok" /\ RowsValid) =>
        (OrderingViolation <=>
            \E k \in 1..(Len(dds) - 1) :
                RowCreationPointLess(RowCreationPoint(dds[k + 1]),
                                     RowCreationPoint(dds[k])))

\* C10 (as claimed): in a returned list, creation_block is absent exactly
\* when the range has no lower bound, and otherwise is the lower bound as
\* the same integer.
C10_CreationBlockIsLowerBound ==
    result.tag = "Ok" =>
        \A k \in 1..Len(result.val) :
            LET lower == RowCreationPoint(dds[k])
                block == result.val[k].creation_block
            IN  /\ block.some <=> lower.some
                /\ lower.some =>
                       /\ lower.val >= 0
                       /\ block.val = U64Of(lower.val)

=============================================================================
